---- MODULE Spec2Model ----
(***************************************************************************)
(* Scan-line traversal of a decoded PNG buffer (src/png/scan_lines.rs):    *)
(* the length calculator ScanLineRanges and the two views ScanLines and    *)
(* ScanLinesMut that carve PngData.raw_data into filter byte + payload.    *)
(*                                                                         *)
(* Representation                                                          *)
(*   Option<T>      None is <<>>, Some(x) is <<x>>.                        *)
(*   &[u8]          a slice is [off, len]: len bytes of png.raw_data       *)
(*                  starting at 0-based offset off.                        *)
(*   usize left     an integer; a negative value -d stands for the wrapped *)
(*                  value 2^64 - d that a build without overflow checks    *)
(*                  stores after subtracting past zero.                    *)
(***************************************************************************)
EXTENDS Integers, Sequences, FiniteSets, TLC

\* Bounds of the model.
MaxWidth == 10
MaxHeight == 9
MutMaxWidth == 3
MutMaxHeight == 3
MaxWrites == 1

\* bit depth x channels, as PngData supplies it.
BitsPerPixels == {1, 4, 8, 16}
MutBitsPerPixels == {4, 8}
\* Buffer contents: byte i is (seed + i) mod 256, so that neighbouring bytes
\* differ and the values wrap within the buffer.
Seeds == {250}
\* Values a caller stores through a mutable payload slice.
WriteValues == {7, 255}

VARIABLES
    png,              \* PngData: width, height, bits_per_pixel, interlaced, raw_data
    kind,             \* which view traverses: "ScanLines" or "ScanLinesMut"
    overflow_checks,  \* the build: TRUE panics on integer overflow, FALSE wraps
    iter,             \* the view's ScanLineRanges
    raw_data,         \* the view's remaining buffer (an Option for ScanLinesMut)
    ranges,           \* the (len, pass) entries iter.next() has returned
    lines,            \* the ScanLine / ScanLineMut values the view has yielded
    status,           \* "running", "exhausted" (next() returned None) or a panic
    writes,           \* number of stores made through yielded payload slices
    last_write,       \* None, or the last store: line, index, value, buffer before
    other,            \* None, or a second traversal running beside the first
    calc              \* None, or one evaluation of next()'s u32 arithmetic

vars == <<png, kind, overflow_checks, iter, raw_data, ranges, lines, status,
          writes, last_write, other, calc>>

None == <<>>
Some(x) == <<x>>

NoPanic == "none"
PanicSubtract == "attempt to subtract with overflow"
PanicSplitAt == "split_at: mid > len"
PanicUnreachable == "unreachable"
Panics == {PanicSubtract, PanicSplitAt, PanicUnreachable}

(***************************************************************************)
(* Adam7 geometry of the decoded stream: what the decoder hands over as    *)
(* PngData.raw_data. A pass with no column or no row in the image          *)
(* contributes no bytes.                                                   *)
(***************************************************************************)
CeilDiv8(bits) == (bits + 7) \div 8

Adam7StartRow(p) == <<0, 0, 4, 0, 2, 0, 1>>[p]
Adam7RowStep(p) == <<8, 8, 8, 4, 4, 2, 2>>[p]
Adam7StartCol(p) == <<0, 4, 0, 2, 0, 1, 0>>[p]
Adam7ColStep(p) == <<8, 8, 4, 4, 2, 2, 1>>[p]

Adam7Rows(p, height) ==
    Cardinality({r \in 0..(height - 1) :
                    r >= Adam7StartRow(p) /\ (r - Adam7StartRow(p)) % Adam7RowStep(p) = 0})

Adam7Cols(p, width) ==
    Cardinality({c \in 0..(width - 1) :
                    c >= Adam7StartCol(p) /\ (c - Adam7StartCol(p)) % Adam7ColStep(p) = 0})

Adam7PassLines(p, width, height) ==
    IF Adam7Cols(p, width) = 0 THEN 0 ELSE Adam7Rows(p, height)

RECURSIVE Adam7SizeUpTo(_, _, _, _)
Adam7SizeUpTo(p, width, height, bpp) ==
    IF p = 0 THEN 0
    ELSE Adam7SizeUpTo(p - 1, width, height, bpp)
         + Adam7PassLines(p, width, height) * (1 + CeilDiv8(Adam7Cols(p, width) * bpp))

RECURSIVE Adam7LinesUpTo(_, _, _)
Adam7LinesUpTo(p, width, height) ==
    IF p = 0 THEN 0
    ELSE Adam7LinesUpTo(p - 1, width, height) + Adam7PassLines(p, width, height)

FullLine(width, bpp) == 1 + CeilDiv8(width * bpp)

DecodedSize(width, height, bpp, interlaced) ==
    IF interlaced = 1 THEN Adam7SizeUpTo(7, width, height, bpp)
    ELSE height * FullLine(width, bpp)

(***************************************************************************)
(* Slices                                                                  *)
(***************************************************************************)
\* A split whose tail starts one byte early.
SplitAtTailOverlaps(s, mid) ==
    <<[off |-> s.off, len |-> mid], [off |-> s.off + mid - 1, len |-> s.len - mid]>>

\* slice.split_at(mid): (head, tail); the caller has checked mid <= len.
SplitAt(s, mid) ==
    <<[off |-> s.off, len |-> mid], [off |-> s.off + mid, len |-> s.len - mid]>>

\* A split_first whose rest still holds the first element.
SplitFirstKeepsFirst(s) ==
    IF s.len = 0 THEN None
    ELSE Some(<<s.off, [off |-> s.off, len |-> s.len - 1]>>)

\* slice.split_first(): None on an empty slice, else (first element, rest).
SplitFirst(s) ==
    IF s.len = 0 THEN None
    ELSE Some(<<s.off, [off |-> s.off + 1, len |-> s.len - 1]>>)

\* The byte of buffer buf at 0-based offset off.
ByteAt(buf, off) == buf[off + 1]

\* The bytes a slice denotes.
SliceBytes(buf, s) == [i \in 1..s.len |-> buf[s.off + i]]

(***************************************************************************)
(* ScanLineRanges                                                          *)
(***************************************************************************)
ScanLineRangesNew(p) ==
    [ pass           |-> IF p.interlaced = 1 THEN Some(<<1, 0>>) ELSE None,
      bits_per_pixel |-> p.bits_per_pixel,
      width          |-> p.width,
      height         |-> p.height,
      left           |-> Len(p.raw_data) ]

\* The pass-2 skip with its width threshold one too low.
SkipPass2Below4(width, pass) ==
    IF width < 4 /\ pass[1] = 2 THEN <<3, 4>> ELSE pass

\* if self.width < 5 && pass.0 == 2 { pass.0 = 3; pass.1 = 4; }
SkipPass2(width, pass) ==
    IF width < 5 /\ pass[1] = 2 THEN <<3, 4>> ELSE pass

\* if self.height < 5 && pass.0 == 3 { pass.0 = 4; pass.1 = 0; }
SkipPass3(height, pass) ==
    IF height < 5 /\ pass[1] = 3 THEN <<4, 0>> ELSE pass

\* The two edge cases with the height check placed first.
NormalizeOrderSwapped(width, height, pass) ==
    SkipPass2(width, SkipPass3(height, pass))

\* The two edge cases, applied one after another.
Normalize(width, height, pass) ==
    SkipPass3(height, SkipPass2(width, pass))

\* match pass { ... }: (pixels_factor, y_steps); no arm for a pass outside 1..7.
PixelsFactor(p) ==
    CASE p \in {1, 2} -> 8
      [] p \in {3, 4} -> 4
      [] p \in {5, 6} -> 2
      [] p = 7 -> 1

YSteps(p) ==
    CASE p \in {1, 2, 3} -> 8
      [] p \in {4, 5} -> 4
      [] p \in {6, 7} -> 2

\* A pixel count with the threshold of pass 4 one column early.
PixelsPerLineEarlyThreshold(width, p) ==
    LET gap == width % PixelsFactor(p)
        extra == \/ (p \in {1, 3, 5} /\ gap > 0)
                 \/ (p = 2 /\ gap >= 5)
                 \/ (p = 4 /\ gap >= 2)
                 \/ (p = 6 /\ gap >= 2)
    IN  (width \div PixelsFactor(p)) + (IF extra THEN 1 ELSE 0)

\* self.width / pixels_factor, plus one for a final incomplete block.
PixelsPerLine(width, p) ==
    LET gap == width % PixelsFactor(p)
        extra == \/ (p \in {1, 3, 5} /\ gap > 0)
                 \/ (p = 2 /\ gap >= 5)
                 \/ (p = 4 /\ gap >= 3)
                 \/ (p = 6 /\ gap >= 2)
    IN  (width \div PixelsFactor(p)) + (IF extra THEN 1 ELSE 0)

\* The cursor after the line of `pass` has been taken.
Advance(height, pass) ==
    IF pass[2] + YSteps(pass[1]) >= height
    THEN <<pass[1] + 1,
           CASE pass[1] + 1 = 3 -> 4
             [] pass[1] + 1 = 5 -> 2
             [] pass[1] + 1 = 7 -> 1
             [] OTHER -> 0>>
    ELSE <<pass[1], pass[2] + YSteps(pass[1])>>

\* The byte count rounded down instead of up.
BytesPerLineFloor(pixels_per_line, bits_per_pixel) ==
    (pixels_per_line * bits_per_pixel) \div 8

\* ((bits_per_line + 7) / 8) as usize
BytesPerLine(pixels_per_line, bits_per_pixel) ==
    ((pixels_per_line * bits_per_pixel) + 7) \div 8

\* self.left -= len overflows exactly when the stored value is below len.
SubOverflows(left, len) == left >= 0 /\ len > left

\* An exhaustion test that also stops on a last single byte.
IsExhaustedBelowTwo(left) == left >= 0 /\ left < 2

\* if self.left == 0 { return None; }
IsExhausted(left) == left = 0

\* A tail of next() that leaves the filter byte out of the decrement of left.
TakeLineForgetsFilterByte(self, pixels_per_line, current_pass, checks) ==
    LET len == BytesPerLine(pixels_per_line, self.bits_per_pixel) + 1
    IN  IF SubOverflows(self.left, len) /\ checks
        THEN [iter |-> self, ret |-> None, panic |-> PanicSubtract]
        ELSE [iter  |-> [self EXCEPT !.left = self.left - (len - 1)],
              ret   |-> Some(<<len, current_pass>>),
              panic |-> NoPanic]

\* A tail of next() that cuts the last line down to the bytes that are left.
TakeLineTruncated(self, pixels_per_line, current_pass, checks) ==
    LET full == BytesPerLine(pixels_per_line, self.bits_per_pixel) + 1
        len == IF SubOverflows(self.left, full) THEN self.left ELSE full
    IN  [iter  |-> [self EXCEPT !.left = self.left - len],
         ret   |-> Some(<<len, current_pass>>),
         panic |-> NoPanic]

\* The tail of next(): the byte length, and the decrement of left.
TakeLine(self, pixels_per_line, current_pass, checks) ==
    LET len == BytesPerLine(pixels_per_line, self.bits_per_pixel) + 1
    IN  IF SubOverflows(self.left, len) /\ checks
        THEN [iter |-> self, ret |-> None, panic |-> PanicSubtract]
        ELSE [iter  |-> [self EXCEPT !.left = self.left - len],
              ret   |-> Some(<<len, current_pass>>),
              panic |-> NoPanic]

\* A next() that records current_pass only after the cursor has advanced.
ScanLineRangesNextRecordsLate(self, checks) ==
    IF IsExhausted(self.left)
    THEN [iter |-> self, ret |-> None, panic |-> NoPanic]
    ELSE IF self.pass = None
    THEN TakeLine(self, self.width, None, checks)
    ELSE LET pass == Normalize(self.width, self.height, self.pass[1])
         IN  IF pass[1] \notin 1..7
             THEN [iter  |-> [self EXCEPT !.pass = Some(pass)],
                   ret   |-> None,
                   panic |-> PanicUnreachable]
             ELSE TakeLine([self EXCEPT !.pass = Some(Advance(self.height, pass))],
                           PixelsPerLine(self.width, pass[1]),
                           Some(Advance(self.height, pass)[1]),
                           checks)

\* ScanLineRanges::next: the calculator after the call, what it returned, and
\* the panic that ended it, if any.
ScanLineRangesNext(self, checks) ==
    IF IsExhausted(self.left)
    THEN [iter |-> self, ret |-> None, panic |-> NoPanic]
    ELSE IF self.pass = None
    THEN TakeLine(self, self.width, None, checks)
    ELSE LET pass == Normalize(self.width, self.height, self.pass[1])
         IN  IF pass[1] \notin 1..7
             THEN [iter  |-> [self EXCEPT !.pass = Some(pass)],
                   ret   |-> None,
                   panic |-> PanicUnreachable]
             ELSE TakeLine([self EXCEPT !.pass = Some(Advance(self.height, pass))],
                           PixelsPerLine(self.width, pass[1]),
                           Some(pass[1]),
                           checks)

\* Byte length the interlaced arithmetic gives the line of pass p.
ArithmeticLen(width, bpp, p) == BytesPerLine(PixelsPerLine(width, p), bpp) + 1

\* Total of the line lengths the interlaced arithmetic produces from cursor
\* `pass` on, run until the cursor leaves pass 7 (no buffer consulted).
RECURSIVE ArithmeticTotalFrom(_, _, _, _)
ArithmeticTotalFrom(width, height, bpp, pass) ==
    LET c == Normalize(width, height, pass)
    IN  IF c[1] > 7 THEN 0
        ELSE ArithmeticLen(width, bpp, c[1])
             + ArithmeticTotalFrom(width, height, bpp, Advance(height, c))

\* n is the total of some leading run of the line lengths produced from
\* cursor `pass` on.
RECURSIVE IsLeadingTotalFrom(_, _, _, _, _)
IsLeadingTotalFrom(n, width, height, bpp, pass) ==
    LET c == Normalize(width, height, pass)
    IN  \/ n = 0
        \/ /\ c[1] <= 7
           /\ n >= ArithmeticLen(width, bpp, c[1])
           /\ IsLeadingTotalFrom(n - ArithmeticLen(width, bpp, c[1]),
                                 width, height, bpp, Advance(height, c))

\* Total of the line lengths next() computes for a descriptor when no buffer
\* end cuts the run short: `height` full lines, or the seven passes.
ComputedSize(width, height, bpp, interlaced) ==
    IF interlaced = 1 THEN ArithmeticTotalFrom(width, height, bpp, <<1, 0>>)
    ELSE height * (BytesPerLine(width, bpp) + 1)

(***************************************************************************)
(* Initial states                                                          *)
(***************************************************************************)
Bytes(n, seed) == [i \in 1..n |-> (seed + i) % 256]

\* Buffer lengths tried for a descriptor: the decoder's, that length off by
\* one byte and by one full-width line either way, and the total of the line
\* lengths next() computes for the descriptor.
BufferLens(width, height, bpp, interlaced) ==
    {n \in {DecodedSize(width, height, bpp, interlaced) + d :
                d \in {0, 1, -1, FullLine(width, bpp), -FullLine(width, bpp)}} :
        n >= 0}
    \cup {ComputedSize(width, height, bpp, interlaced)}

NewView(k, w, h, b, il, n, seed, oc) ==
    /\ png = [width |-> w, height |-> h, bits_per_pixel |-> b,
              interlaced |-> il, raw_data |-> Bytes(n, seed)]
    /\ kind = k
    /\ overflow_checks = oc
    /\ iter = ScanLineRangesNew(png)
    /\ raw_data = IF k = "ScanLines" THEN [off |-> 0, len |-> n]
                  ELSE Some([off |-> 0, len |-> n])
    /\ ranges = <<>>
    /\ lines = <<>>
    /\ status = "running"
    /\ writes = 0
    /\ last_write = None
    /\ other = None
    /\ calc = None

Init ==
    \E k \in {"ScanLines", "ScanLinesMut"}, w \in 1..MaxWidth, h \in 1..MaxHeight,
       b \in BitsPerPixels, il \in {0, 1}, seed \in Seeds, oc \in BOOLEAN :
        \E n \in BufferLens(w, h, b, il) :
            NewView(k, w, h, b, il, n, seed, oc)

InitMut ==
    \E w \in 1..MutMaxWidth, h \in 1..MutMaxHeight,
       b \in MutBitsPerPixels, il \in {0, 1}, seed \in Seeds, oc \in BOOLEAN :
        \E n \in BufferLens(w, h, b, il) :
            NewView("ScanLinesMut", w, h, b, il, n, seed, oc)

(***************************************************************************)
(* The views                                                               *)
(***************************************************************************)
\* A closure that clears the filter byte it has read.
CarveLineClearsFilter(buf, whole, len, pass) ==
    LET sp == SplitAt(whole, len)
        sf == SplitFirst(sp[1])[1]
    IN  [line |-> [filter |-> ByteAt(buf, sf[1]), data |-> sf[2], pass |-> pass],
         rest |-> sp[2],
         buf  |-> [buf EXCEPT ![sf[1] + 1] = 0]]

\* The closure of ScanLines::next on slice `whole` of the shared buffer: the
\* line it builds, the remainder it keeps, and the buffer, which it only reads.
CarveLine(buf, whole, len, pass) ==
    LET sp == SplitAt(whole, len)
        sf == SplitFirst(sp[1])[1]
    IN  [line |-> [filter |-> ByteAt(buf, sf[1]), data |-> sf[2], pass |-> pass],
         rest |-> sp[2],
         buf  |-> buf]

\* A closure that hands out the whole line, filter byte included, as data.
CarveLineMutKeepsFilter(buf, whole, len, pass) ==
    LET sp == SplitAt(whole, len)
        sf == SplitFirst(sp[1])[1]
    IN  [line |-> [filter |-> ByteAt(buf, sf[1]), data |-> sp[1], pass |-> pass],
         rest |-> sp[2],
         buf  |-> buf]

\* The closure of ScanLinesMut::next: split_at_mut, then split_first_mut.
CarveLineMut(buf, whole, len, pass) ==
    LET sp == SplitAt(whole, len)
        sf == SplitFirst(sp[1])[1]
    IN  [line |-> [filter |-> ByteAt(buf, sf[1]), data |-> sf[2], pass |-> pass],
         rest |-> sp[2],
         buf  |-> buf]

\* The fields of the traversal the variables hold.
View ==
    [iter |-> iter, raw_data |-> raw_data, ranges |-> ranges, lines |-> lines,
     status |-> status]

\* ScanLines::next on traversal v over buffer buf: the traversal and the
\* buffer after the call.
ScanLinesCall(v, buf, checks) ==
    LET r == ScanLineRangesNext(v.iter, checks)
    IN  IF r.panic # NoPanic
        THEN [view |-> [v EXCEPT !.iter = r.iter, !.status = r.panic], buf |-> buf]
        ELSE IF r.ret = None
        THEN [view |-> [v EXCEPT !.iter = r.iter, !.status = "exhausted"],
              buf |-> buf]
        ELSE LET len == r.ret[1][1]
                 pass == r.ret[1][2]
             IN  IF len > v.raw_data.len
                 THEN [view |-> [v EXCEPT !.iter = r.iter,
                                          !.ranges = Append(v.ranges, r.ret[1]),
                                          !.status = PanicSplitAt],
                       buf |-> buf]
                 ELSE LET c == CarveLine(buf, v.raw_data, len, pass)
                      IN  [view |-> [iter     |-> r.iter,
                                     raw_data |-> c.rest,
                                     ranges   |-> Append(v.ranges, r.ret[1]),
                                     lines    |-> Append(v.lines, c.line),
                                     status   |-> "running"],
                           buf |-> c.buf]

\* ScanLinesMut::next: the remainder is taken out of its Option before the
\* split and put back after it.
ScanLinesMutCall(v, buf, checks) ==
    LET r == ScanLineRangesNext(v.iter, checks)
    IN  IF r.panic # NoPanic
        THEN [view |-> [v EXCEPT !.iter = r.iter, !.status = r.panic], buf |-> buf]
        ELSE IF r.ret = None
        THEN [view |-> [v EXCEPT !.iter = r.iter, !.status = "exhausted"],
              buf |-> buf]
        ELSE LET len == r.ret[1][1]
                 pass == r.ret[1][2]
                 tmp == v.raw_data[1]
             IN  IF len > tmp.len
                 THEN [view |-> [v EXCEPT !.iter = r.iter,
                                          !.raw_data = None,
                                          !.ranges = Append(v.ranges, r.ret[1]),
                                          !.status = PanicSplitAt],
                       buf |-> buf]
                 ELSE LET c == CarveLineMut(buf, tmp, len, pass)
                      IN  [view |-> [iter     |-> r.iter,
                                     raw_data |-> Some(c.rest),
                                     ranges   |-> Append(v.ranges, r.ret[1]),
                                     lines    |-> Append(v.lines, c.line),
                                     status   |-> "running"],
                           buf |-> c.buf]

\* The variables of the first traversal after a call that gave r.
Becomes(r) ==
    /\ iter' = r.view.iter
    /\ raw_data' = r.view.raw_data
    /\ ranges' = r.view.ranges
    /\ lines' = r.view.lines
    /\ status' = r.view.status
    /\ png' = [png EXCEPT !.raw_data = r.buf]

ScanLinesNext ==
    /\ kind = "ScanLines"
    /\ status \in {"running", "exhausted"}
    /\ Becomes(ScanLinesCall(View, png.raw_data, overflow_checks))
    /\ UNCHANGED <<kind, overflow_checks, writes, last_write, other, calc>>

ScanLinesMutNext ==
    /\ kind = "ScanLinesMut"
    /\ status \in {"running", "exhausted"}
    /\ Becomes(ScanLinesMutCall(View, png.raw_data, overflow_checks))
    /\ UNCHANGED <<kind, overflow_checks, writes, last_write, other, calc>>

\* The caller stores v at index j of the payload slice of the i-th yielded line.
WriteData ==
    /\ kind = "ScanLinesMut"
    /\ status \in {"running", "exhausted"}
    /\ writes < MaxWrites
    /\ \E i \in 1..Len(lines) :
         \E j \in 0..(lines[i].data.len - 1), v \in WriteValues :
            /\ png' = [png EXCEPT !.raw_data[lines[i].data.off + j + 1] = v]
            /\ last_write' = Some([line |-> i, index |-> j, value |-> v,
                                   before |-> png.raw_data])
    /\ writes' = writes + 1
    /\ UNCHANGED <<kind, overflow_checks, iter, raw_data, ranges, lines, status,
                   other, calc>>

Next == ScanLinesNext \/ ScanLinesMutNext

Spec == Init /\ [][Next]_vars

NextMut == ScanLinesMutNext \/ WriteData

SpecMut == InitMut /\ [][NextMut]_vars

(***************************************************************************)
(* Two traversals of one descriptor                                        *)
(***************************************************************************)
PairMaxWidth == 5
PairMaxHeight == 5
PairBitsPerPixels == {4}

\* ScanLines::new / ScanLinesMut::new as a record: a traversal of kind k of p.
NewTraversal(k, p) ==
    [iter     |-> ScanLineRangesNew(p),
     raw_data |-> IF k = "ScanLines" THEN [off |-> 0, len |-> Len(p.raw_data)]
                  ELSE Some([off |-> 0, len |-> Len(p.raw_data)]),
     ranges   |-> <<>>,
     lines    |-> <<>>,
     status   |-> "running"]

\* The second traversal: another ScanLines borrowing the first one's buffer
\* (png = None), a ScanLinesMut over a copy of it, or a ScanLines over a
\* buffer of another length for the same descriptor. `start` keeps the
\* contents the first buffer was constructed with.
Seconds(p, seed) ==
    {[kind |-> "ScanLines", png |-> None, start |-> p.raw_data,
      view |-> NewTraversal("ScanLines", p)]}
    \cup {[kind |-> "ScanLinesMut", png |-> p, start |-> p.raw_data,
           view |-> NewTraversal("ScanLinesMut", p)]}
    \cup {[kind |-> "ScanLines", png |-> [p EXCEPT !.raw_data = Bytes(m, seed)],
           start |-> p.raw_data,
           view |-> NewTraversal("ScanLines", [p EXCEPT !.raw_data = Bytes(m, seed)])] :
             m \in BufferLens(p.width, p.height, p.bits_per_pixel, p.interlaced)
                     \ {Len(p.raw_data)}}

InitPair ==
    \E w \in 1..PairMaxWidth, h \in 1..PairMaxHeight, b \in PairBitsPerPixels,
       il \in {0, 1}, seed \in Seeds, oc \in BOOLEAN :
        \E n \in BufferLens(w, h, b, il) :
            /\ png = [width |-> w, height |-> h, bits_per_pixel |-> b,
                      interlaced |-> il, raw_data |-> Bytes(n, seed)]
            /\ kind = "ScanLines"
            /\ overflow_checks = oc
            /\ iter = NewTraversal("ScanLines", png).iter
            /\ raw_data = NewTraversal("ScanLines", png).raw_data
            /\ ranges = <<>>
            /\ lines = <<>>
            /\ status = "running"
            /\ writes = 0
            /\ last_write = None
            /\ other \in Seconds(png, seed)
            /\ calc = None

\* The buffer the second traversal views.
OtherBuf == IF other.png = None THEN png.raw_data ELSE other.png.raw_data

\* A call of next() on the second traversal.
OtherNext ==
    /\ other # None
    /\ other.view.status \in {"running", "exhausted"}
    /\ LET r == IF other.kind = "ScanLines"
                THEN ScanLinesCall(other.view, OtherBuf, overflow_checks)
                ELSE ScanLinesMutCall(other.view, OtherBuf, overflow_checks)
       IN  IF other.png = None
           THEN /\ other' = [other EXCEPT !.view = r.view]
                /\ png' = [png EXCEPT !.raw_data = r.buf]
           ELSE /\ other' = [other EXCEPT !.view = r.view, !.png.raw_data = r.buf]
                /\ UNCHANGED png
    /\ UNCHANGED <<kind, overflow_checks, iter, raw_data, ranges, lines, status,
                   writes, last_write, calc>>

NextPair == ScanLinesNext \/ OtherNext

SpecPair == InitPair /\ [][NextPair]_vars

(***************************************************************************)
(* The u32 arithmetic of next()                                            *)
(***************************************************************************)
\* A u32 is kept as two 16-bit limbs <<hi, lo>>, its value hi * 65536 + lo,
\* so that operands and results up to 2^32 - 1 can be told from wrapped ones.
U32(x) == <<x \div 65536, x % 65536>>

\* a * u32::from(b) for a u8 b: the wrapped product, and whether it overflowed.
U32Mul(a, b) ==
    LET lo == a[2] * b
        hi == a[1] * b + (lo \div 65536)
    IN  [value |-> <<hi % 65536, lo % 65536>>, overflow |-> hi >= 65536]

\* a + b for a small b: the wrapped sum, and whether it overflowed.
U32Add(a, b) ==
    LET lo == a[2] + b
        hi == a[1] + (lo \div 65536)
    IN  [value |-> <<hi % 65536, lo % 65536>>, overflow |-> hi >= 65536]

\* a - b for a small b <= a.
U32Sub(a, b) ==
    IF a[2] >= b THEN <<a[1], a[2] - b>> ELSE <<a[1] - 1, a[2] + 65536 - b>>

U32GreaterEq(a, b) == a[1] > b[1] \/ (a[1] = b[1] /\ a[2] >= b[2])

\* (x / 8) as usize: below 2^29.
U32Div8(a) == (a[1] \div 8) * 65536 + (((a[1] % 8) * 65536 + a[2]) \div 8)

PanicAdd == "attempt to add with overflow"
PanicMultiply == "attempt to multiply with overflow"

\* The u32 operations of one call of next() at cursor (pass, row), pass 0
\* standing for a non-interlaced image, in the order the code performs them:
\* pass.1 + y_steps, pixels_per_line * bpp, bits_per_line + 7. With overflow
\* checks the first overflow panics; without them the result wraps.
NextArithmetic(width, height, bpp, pass, row, checks) ==
    LET ppl  == IF pass = 0 THEN width ELSE PixelsPerLine(width, pass)
        sum  == IF pass = 0 THEN [value |-> row, overflow |-> FALSE]
                ELSE U32Add(row, YSteps(pass))
        bits == U32Mul(U32(ppl), bpp)
        up   == U32Add(bits.value, 7)
        add_overflow == sum.overflow
        mul_overflow == (~(checks /\ sum.overflow)) /\ bits.overflow
        round_overflow == (~(checks /\ (sum.overflow \/ bits.overflow))) /\ up.overflow
    IN  [pixels_per_line |-> ppl,
         row_overflow    |-> add_overflow,
         mul_overflow    |-> mul_overflow,
         round_overflow  |-> round_overflow,
         panic |-> IF ~checks THEN NoPanic
                   ELSE IF add_overflow THEN PanicAdd
                   ELSE IF mul_overflow THEN PanicMultiply
                   ELSE IF round_overflow THEN PanicAdd
                   ELSE NoPanic,
         leaves_pass |-> pass # 0 /\ U32GreaterEq(sum.value, height),
         row_after   |-> sum.value,
         len |-> U32Div8(up.value) + 1]

\* Largest small width, and widths around the powers of two at which a
\* product with a bits-per-pixel value reaches 2^32.
ArithMaxWidth == 24
BigWidths == {65535, 65536, 16777216, 67108863, 67108864, 536870911,
              536870912, 2147483647}
ArithBitsPerPixels == {1, 2, 8, 16, 64, 255}
\* Heights 1, 2, 9, 2^31 - 1, 2^32 - 8 and 2^32 - 1.
ArithHeights == {<<0, 1>>, <<0, 2>>, <<0, 9>>, <<32767, 65535>>,
                 <<65535, 65528>>, <<65535, 65535>>}

\* The row a pass starts at, as the advance step sets it.
StartRow(p) ==
    CASE p = 3 -> 4
      [] p = 5 -> 2
      [] p = 7 -> 1
      [] OTHER -> 0

\* The last row below `height` that the cursor of pass p reaches from its
\* start row in steps of y_steps.
LastRow(p, height) ==
    U32Sub(height, 1 + ((height[2] - 1 - StartRow(p)) % YSteps(p)))

\* Cursor rows of pass p in an image of that height: the first and the last.
CursorRows(p, height) ==
    IF p = 0 THEN {U32(0)}
    ELSE {U32(StartRow(p))}
         \cup (IF U32GreaterEq(height, U32(StartRow(p) + 1))
               THEN {LastRow(p, height)} ELSE {})

InitArith ==
    /\ \E w \in (1..ArithMaxWidth) \cup BigWidths, h \in ArithHeights,
          b \in ArithBitsPerPixels, p \in 0..7 :
          \E r \in CursorRows(p, h) :
             calc = [width |-> w, height |-> h, bits_per_pixel |-> b,
                     pass |-> p, row |-> r, result |-> None]
    /\ overflow_checks \in BOOLEAN
    /\ png = None
    /\ kind = "ScanLineRanges"
    /\ iter = None
    /\ raw_data = None
    /\ ranges = <<>>
    /\ lines = <<>>
    /\ status = "running"
    /\ writes = 0
    /\ last_write = None
    /\ other = None

\* One call of next() at the cursor, as far as its u32 arithmetic goes.
EvalArithmetic ==
    /\ calc # None
    /\ calc.result = None
    /\ calc' = [calc EXCEPT !.result =
                  Some(NextArithmetic(calc.width, calc.height, calc.bits_per_pixel,
                                      calc.pass, calc.row, overflow_checks))]
    /\ UNCHANGED <<png, kind, overflow_checks, iter, raw_data, ranges, lines,
                   status, writes, last_write, other>>

NextArith == EvalArithmetic

SpecArith == InitArith /\ [][NextArith]_vars

(***************************************************************************)
(* Definitions shared by the properties                                    *)
(***************************************************************************)
\* Sum of the byte lengths of the first k entries of rs.
RECURSIVE SumLens(_, _)
SumLens(rs, k) == IF k = 0 THEN 0 ELSE SumLens(rs, k - 1) + rs[k][1]

\* 0-based buffer offset at which the i-th yielded line starts.
LineStart(i) == SumLens(ranges, i - 1)

\* filter byte followed by payload bytes of the first k yielded lines.
RECURSIVE Concatenated(_)
Concatenated(k) ==
    IF k = 0 THEN <<>>
    ELSE Concatenated(k - 1) \o <<lines[k].filter>>
                             \o SliceBytes(png.raw_data, lines[k].data)

BufferLen == Len(png.raw_data)

BufferIsDecoded ==
    BufferLen = DecodedSize(png.width, png.height, png.bits_per_pixel, png.interlaced)

\* The view's remaining buffer, when it holds one.
HasRemainder == kind = "ScanLines" \/ raw_data # None
Remainder == IF kind = "ScanLines" THEN raw_data ELSE raw_data[1]

\* Total the arithmetic computes for the descriptor.
ArithmeticTotal ==
    ComputedSize(png.width, png.height, png.bits_per_pixel, png.interlaced)

\* The buffer length is the total of some leading run of the line lengths.
IsPrefixTotal ==
    IF png.interlaced = 1
    THEN IsLeadingTotalFrom(BufferLen, png.width, png.height, png.bits_per_pixel, <<1, 0>>)
    ELSE BufferLen % (BytesPerLine(png.width, png.bits_per_pixel) + 1) = 0

(***************************************************************************)
(* C1                                                                      *)
(***************************************************************************)
C1_Case ==
    /\ png.interlaced = 0
    /\ BufferLen = png.height * (1 + CeilDiv8(png.width * png.bits_per_pixel))

\* C1: a non-interlaced image with a buffer of H * (1 + ceil(W*B/8)) bytes yields
\* exactly H entries before None, each of length 1 + ceil(W*B/8) with pass None,
\* and the yielded lengths sum to the buffer length.
C1_NonInterlacedLines ==
    C1_Case =>
        /\ status \in {"running", "exhausted"}
        /\ Len(ranges) <= png.height
        /\ \A i \in 1..Len(ranges) :
              ranges[i] = <<1 + CeilDiv8(png.width * png.bits_per_pixel), None>>
        /\ (iter.left = 0) <=> (Len(ranges) = png.height)
        /\ status = "exhausted" =>
              /\ Len(ranges) = png.height
              /\ SumLens(ranges, Len(ranges)) = BufferLen

C1_Witness ==
    /\ C1_Case
    /\ png.width = 10 /\ png.height = 3 /\ png.bits_per_pixel = 8
    /\ BufferLen = 33
    /\ status = "exhausted"
    /\ ranges = <<<<11, None>>, <<11, None>>, <<11, None>>>>

(***************************************************************************)
(* C2                                                                      *)
(***************************************************************************)
\* C2: for an interlaced image whose buffer has the Adam7 size, the number of
\* scan lines yielded before exhaustion is the sum over passes 1..7 of the
\* pass's row count (zero for a pass with no column in the image).
C2_InterlacedLineCount ==
    (png.interlaced = 1 /\ BufferIsDecoded /\ status = "exhausted")
        => Len(ranges) = Adam7LinesUpTo(7, png.width, png.height)

(***************************************************************************)
(* C3                                                                      *)
(***************************************************************************)
\* C3: the filter byte and payload bytes of the yielded lines, concatenated in
\* order, are the buffer's bytes at their original positions; once the
\* traversal is exhausted they are the whole buffer, with nothing left over.
\* A buffer as long as the total of the line lengths computed for its
\* descriptor is traversed to exhaustion: no call panics on it.
C3_RoundTrip ==
    LET all == Concatenated(Len(lines))
    IN  /\ Len(all) <= BufferLen
        /\ all = SubSeq(png.raw_data, 1, Len(all))
        /\ status = "exhausted" =>
              /\ all = png.raw_data
              /\ Remainder.len = 0
        /\ BufferLen = ArithmeticTotal =>
              /\ status \notin Panics
              /\ (status = "running" /\ iter.left = 0) => all = png.raw_data

C3_Witness ==
    /\ png.interlaced = 1
    /\ kind = "ScanLinesMut"
    /\ BufferIsDecoded
    /\ BufferLen = ArithmeticTotal
    /\ png.width >= 5 /\ png.height >= 5
    /\ status = "exhausted"
    /\ Len(lines) >= 7
    /\ Concatenated(Len(lines)) = png.raw_data

(***************************************************************************)
(* C4                                                                      *)
(***************************************************************************)
\* C4: on a buffer of the size the decoder produces, the calls to next never
\* subtract more than is left, never reach unreachable!(), and end with left = 0.
C4_TotalOnDecodedBuffers ==
    BufferIsDecoded =>
        /\ status \notin Panics
        /\ iter.left >= 0
        /\ status = "exhausted" => iter.left = 0

(***************************************************************************)
(* C5                                                                      *)
(***************************************************************************)
\* C5: for an interlaced image, every yielded line belongs to a pass that has
\* at least one column and one row in the image, and is at least 2 bytes long.
C5_OnlyNonEmptyPasses ==
    (png.interlaced = 1 /\ BufferIsDecoded) =>
        \A i \in 1..Len(ranges) :
            /\ ranges[i][1] >= 2
            /\ ranges[i][2] # None
            /\ Adam7Cols(ranges[i][2][1], png.width) > 0
            /\ Adam7Rows(ranges[i][2][1], png.height) > 0

(***************************************************************************)
(* C6                                                                      *)
(***************************************************************************)
\* C6: a store through the payload slice of line i changes exactly the buffer
\* byte at (start of line i) + 1 + index: the value is read back there, and
\* every other byte, every filter byte included, is as before.
C6_WriteFrame ==
    last_write # None =>
        LET w == last_write[1]
            at == LineStart(w.line) + 1 + w.index
        IN  /\ w.index < ranges[w.line][1] - 1
            /\ Len(png.raw_data) = Len(w.before)
            /\ ByteAt(png.raw_data, at) = w.value
            /\ \A k \in 0..(BufferLen - 1) :
                  k # at => ByteAt(png.raw_data, k) = ByteAt(w.before, k)
            /\ \A i \in 1..Len(lines) :
                  /\ at # LineStart(i)
                  /\ ByteAt(png.raw_data, LineStart(i)) = lines[i].filter

C6_Witness ==
    /\ last_write # None
    /\ last_write[1].line = 2
    /\ last_write[1].index >= 1
    /\ Len(lines) >= 3
    /\ ByteAt(last_write[1].before, LineStart(2) + 1 + last_write[1].index)
          # last_write[1].value

(***************************************************************************)
(* C7                                                                      *)
(***************************************************************************)
\* C7: in a ScanLinesMut traversal the yielded lines occupy pairwise disjoint
\* byte ranges at strictly increasing offsets, inside the buffer, and all of
\* them end before the retained remainder starts.
C7_Disjoint ==
    kind = "ScanLinesMut" =>
        /\ \A i \in 1..Len(lines) :
              /\ lines[i].data.off >= 1
              /\ lines[i].data.len >= 0
              /\ lines[i].data.off + lines[i].data.len <= BufferLen
        /\ \A i, j \in 1..Len(lines) :
              i < j =>
                /\ lines[i].data.off < lines[j].data.off
                /\ lines[i].data.off + lines[i].data.len <= lines[j].data.off - 1
        /\ raw_data # None =>
              /\ raw_data[1].len >= 0
              /\ raw_data[1].off + raw_data[1].len = BufferLen
              /\ \A i \in 1..Len(lines) :
                    lines[i].data.off + lines[i].data.len <= raw_data[1].off

C7_Witness ==
    /\ kind = "ScanLinesMut"
    /\ status = "running"
    /\ Len(lines) >= 3
    /\ raw_data # None
    /\ raw_data[1].len > 0
    /\ \A i \in 1..Len(lines) : lines[i].data.len >= 1

(***************************************************************************)
(* C8                                                                      *)
(***************************************************************************)
\* C8 as stated: a buffer whose length is not the total the arithmetic computes
\* for the descriptor never lets the traversal complete normally.
C8_MismatchIsFatal ==
    BufferLen # ArithmeticTotal => status # "exhausted"

\* C8 as amended: a buffer whose length is not the total of a leading run of
\* the computed line lengths never lets the traversal complete normally (the
\* next call goes on to a panic); a buffer whose length is such a total is
\* traversed without a panic and completes with the lines that fit in it.
C8_NonPrefixIsFatal ==
    IF IsPrefixTotal
    THEN /\ status \notin Panics
         /\ status = "exhausted" => SumLens(ranges, Len(ranges)) = BufferLen
    ELSE /\ status # "exhausted"
         /\ status = "running" => iter.left > 0

C8_Witness ==
    /\ ~IsPrefixTotal
    /\ BufferLen # ArithmeticTotal
    /\ Len(ranges) >= 2
    /\ status \in Panics

(***************************************************************************)
(* C9                                                                      *)
(***************************************************************************)
\* C9: for an interlaced image with width < 5, no yielded entry has pass 2.
C9_NoPass2WhenNarrow ==
    (png.interlaced = 1 /\ png.width < 5) =>
        \A i \in 1..Len(ranges) : ranges[i][2] # Some(2)

C9_Witness ==
    /\ png.interlaced = 1
    /\ png.width < 5
    /\ png.height >= 5
    /\ Len(ranges) >= 2
    /\ ranges[1][2] = Some(1)
    /\ ranges[2][2] = Some(3)

(***************************************************************************)
(* C10                                                                     *)
(***************************************************************************)
\* C10: for an interlaced image with height < 5, no yielded entry has pass 3.
C10_NoPass3WhenShort ==
    (png.interlaced = 1 /\ png.height < 5) =>
        \A i \in 1..Len(ranges) : ranges[i][2] # Some(3)

C10_Witness ==
    /\ png.interlaced = 1
    /\ png.width < 5
    /\ png.height < 5
    /\ Len(ranges) >= 2
    /\ ranges[1][2] = Some(1)
    /\ ranges[2][2] = Some(4)

(***************************************************************************)
(* C11                                                                     *)
(***************************************************************************)
\* C11: for an interlaced image every yielded pass is Some(p) with p in 1..7
\* and the pass numbers never decrease from one line to the next; for a
\* non-interlaced image every yielded pass is None. The views hand on the
\* pass the calculator returned.
C11_PassOrder ==
    /\ \A i \in 1..Len(ranges) :
          IF png.interlaced = 1
          THEN /\ ranges[i][2] # None
               /\ ranges[i][2][1] \in 1..7
               /\ i < Len(ranges) => ranges[i][2][1] <= ranges[i + 1][2][1]
          ELSE ranges[i][2] = None
    /\ \A i \in 1..Len(lines) : lines[i].pass = ranges[i][2]

C11_Witness ==
    /\ png.interlaced = 1
    /\ status = "exhausted"
    /\ {ranges[i][2][1] : i \in 1..Len(ranges)} = 1..7
    /\ Len(ranges) > 7
    /\ Len(lines) = Len(ranges)

(***************************************************************************)
(* C15                                                                     *)
(***************************************************************************)
\* C15: whenever a line is yielded for an interlaced pass, the cursor row used
\* for it (the cursor after the two skips) is a row of the image on that
\* pass's grid: below height, and start_row modulo vert_step.
C15_CursorOnGrid ==
    [][(Len(lines') > Len(lines) /\ iter.pass # None /\ BufferIsDecoded) =>
          LET c == Normalize(iter.width, iter.height, iter.pass[1])
          IN  /\ c[2] < iter.height
              /\ c[2] >= Adam7StartRow(c[1])
              /\ (c[2] - Adam7StartRow(c[1])) % Adam7RowStep(c[1]) = 0]_vars

(***************************************************************************)
(* C16                                                                     *)
(***************************************************************************)
\* C16: a call returns None exactly when left = 0, wherever the cursor is;
\* that call changes nothing of the calculator, of the view's remainder or of
\* what was yielded; and once None was returned left is 0, so every later
\* call returns None again and leaves the calculator as it is.
C16_NoneIffLeftZero ==
    /\ [][/\ (status' = "exhausted") <=> (iter.left = 0)
          /\ iter.left = 0 => UNCHANGED <<png, iter, raw_data, ranges, lines>>]_vars
    /\ [](status = "exhausted" =>
            /\ iter.left = 0
            /\ ScanLineRangesNext(iter, overflow_checks)
                  = [iter |-> iter, ret |-> None, panic |-> NoPanic])

C16_Witness ==
    /\ status = "exhausted"
    /\ iter.pass # None
    /\ iter.pass[1][1] \in 2..6
    /\ Len(lines) >= 2
    /\ Remainder.len = 0

(***************************************************************************)
(* C17                                                                     *)
(***************************************************************************)
\* The bookkeeping of a traversal: the remainder is as long as left, left plus
\* the yielded lengths is the buffer length, and line k starts at the sum of
\* the k-1 lengths before it.
Bookkeeping ==
    /\ HasRemainder
    /\ Remainder.len = iter.left
    /\ Remainder.off = SumLens(ranges, Len(ranges))
    /\ iter.left + SumLens(ranges, Len(ranges)) = BufferLen
    /\ Len(lines) = Len(ranges)
    /\ \A k \in 1..Len(lines) :
          /\ lines[k].data.off = SumLens(ranges, k - 1) + 1
          /\ lines[k].data.len = ranges[k][1] - 1
          /\ lines[k].filter = ByteAt(png.raw_data, SumLens(ranges, k - 1))

\* C17 as stated: the bookkeeping holds in every reachable state.
C17_BookkeepingAlways == Bookkeeping

\* C17 as amended: the bookkeeping holds in every state except the one a call
\* leaves behind when it panics in split_at: there left has been decremented
\* past zero (no overflow checks) and the entry was returned, but no line was
\* taken from the remainder.
C17_BookkeepingUnlessSplitPanic ==
    IF status = PanicSplitAt
    THEN /\ ~overflow_checks
         /\ iter.left < 0
         /\ Len(ranges) = Len(lines) + 1
    ELSE Bookkeeping

C17_Witness ==
    /\ kind = "ScanLinesMut"
    /\ png.interlaced = 1
    /\ status = "running"
    /\ Len(lines) >= 3
    /\ iter.left > 0
    /\ Bookkeeping

(***************************************************************************)
(* C14                                                                     *)
(***************************************************************************)
\* C14: for every pass p in 1..7 and width W > 0, the pixel count next()
\* computes for a line of pass p is the number of columns c in 0..W-1 with
\* c = start_col(p) modulo the horizontal factor of p.
C14_PixelsPerLineCountsColumns ==
    (/\ calc # None
     /\ calc.result # None
     /\ calc.pass \in 1..7
     /\ calc.width <= ArithMaxWidth)
    => calc.result[1].pixels_per_line = Adam7Cols(calc.pass, calc.width)

C14_Witness ==
    /\ calc # None
    /\ calc.result # None
    /\ calc.pass = 4
    /\ calc.width = 19
    /\ calc.result[1].pixels_per_line = 5

(***************************************************************************)
(* C19                                                                     *)
(***************************************************************************)
\* C19: no u32 operation of next() exceeds 2^32 - 1 (pixels_per_line * bpp,
\* bits_per_line + 7, row + y_steps), so that the byte length is
\* 1 + ceil(pixels_per_line * bpp / 8) over the integers.
C19_NoU32Overflow ==
    (calc # None /\ calc.result # None) =>
       LET r == calc.result[1]
       IN  /\ ~r.row_overflow
           /\ ~r.mul_overflow
           /\ ~r.round_overflow
           /\ r.panic = NoPanic
           /\ calc.width <= ArithMaxWidth =>
                 r.len = 1 + CeilDiv8(r.pixels_per_line * calc.bits_per_pixel)

(***************************************************************************)
(* C12                                                                     *)
(***************************************************************************)
Min(a, b) == IF a <= b THEN a ELSE b

BothFinished ==
    /\ other # None
    /\ status # "running"
    /\ other.view.status # "running"

\* C12 as stated: two calculators constructed from the same descriptor yield
\* identical sequences of (byte_length, pass) entries (here: whenever both
\* have run to their normal end).
C12_SameDescriptorSameSequence ==
    (other # None /\ status = "exhausted" /\ other.view.status = "exhausted")
    => ranges = other.view.ranges

\* C12 as amended: the entries of two calculators of one descriptor agree at
\* every index both have reached, and when their buffers have the same length
\* the finished sequences, the way they end and the calculators are identical.
C12_SameDescriptorAndLength ==
    other # None =>
       /\ \A i \in 1..Min(Len(ranges), Len(other.view.ranges)) :
             ranges[i] = other.view.ranges[i]
       /\ (BothFinished /\ Len(OtherBuf) = BufferLen) =>
             /\ ranges = other.view.ranges
             /\ status = other.view.status
             /\ iter = other.view.iter

C12_Witness ==
    /\ BothFinished
    /\ other.png # None
    /\ Len(other.png.raw_data) # BufferLen
    /\ png.interlaced = 1
    /\ png.width >= 3
    /\ png.height >= 3
    /\ Len(ranges) >= 3
    /\ Len(other.view.ranges) >= 3
    /\ Len(ranges) # Len(other.view.ranges)

(***************************************************************************)
(* C13                                                                     *)
(***************************************************************************)
\* A ScanLines traversal run alone from v over buf until it stops.
RECURSIVE AloneRun(_, _, _)
AloneRun(v, buf, checks) ==
    IF v.status # "running" THEN v
    ELSE LET r == ScanLinesCall(v, buf, checks)
         IN  AloneRun(r.view, r.buf, checks)

\* What a yielded line shows its reader.
LineContent(buf, l) ==
    [filter |-> l.filter, data |-> SliceBytes(buf, l.data), pass |-> l.pass]

\* C13: two ScanLines traversals borrowing one buffer, stepped in any
\* interleaving: the buffer keeps the bytes it was constructed with, and each
\* traversal has yielded the leading lines (all of them once it has stopped,
\* and it stops the same way) of the traversal run alone.
C13_InterleavedAsAlone ==
    (other # None /\ other.png = None) =>
       LET alone == AloneRun(NewTraversal("ScanLines",
                                          [png EXCEPT !.raw_data = other.start]),
                             other.start, overflow_checks)
           AsAlone(v) ==
               /\ Len(v.lines) <= Len(alone.lines)
               /\ \A i \in 1..Len(v.lines) :
                     /\ v.lines[i].data = alone.lines[i].data
                     /\ LineContent(png.raw_data, v.lines[i])
                           = LineContent(other.start, alone.lines[i])
               /\ v.status # "running" =>
                     /\ Len(v.lines) = Len(alone.lines)
                     /\ v.status = alone.status
       IN  /\ png.raw_data = other.start
           /\ AsAlone(View)
           /\ AsAlone(other.view)

C13_Witness ==
    /\ other # None
    /\ other.png = None
    /\ png.interlaced = 1
    /\ png.width >= 3
    /\ png.height >= 3
    /\ status = "running"
    /\ other.view.status = "running"
    /\ Len(lines) >= 2
    /\ Len(other.view.lines) >= 4
    /\ png.raw_data = other.start

(***************************************************************************)
(* C18                                                                     *)
(***************************************************************************)
\* C18: a ScanLines and a ScanLinesMut over one descriptor and equal buffer
\* contents, no write made: at every index both have reached, the two lines
\* have the same filter byte, the same payload offsets and bytes and the same
\* pass; once both have stopped they have yielded the same number of lines
\* and stopped the same way.
C18_ViewsAgree ==
    (other # None /\ other.kind = "ScanLinesMut") =>
       /\ \A i \in 1..Min(Len(lines), Len(other.view.lines)) :
             /\ lines[i] = other.view.lines[i]
             /\ SliceBytes(png.raw_data, lines[i].data)
                   = SliceBytes(other.png.raw_data, other.view.lines[i].data)
       /\ BothFinished =>
             /\ Len(lines) = Len(other.view.lines)
             /\ ranges = other.view.ranges
             /\ status = other.view.status

C18_Witness ==
    /\ other # None
    /\ other.kind = "ScanLinesMut"
    /\ png.interlaced = 1
    /\ png.width >= 3
    /\ png.height >= 3
    /\ status = "exhausted"
    /\ other.view.status = "exhausted"
    /\ Len(lines) >= 5
    /\ Len(other.view.lines) = Len(lines)
    /\ lines[5].data.len > 0

====
